---- MODULE Spec2Model ----
(***************************************************************************)
(* A model of the genetic-algorithm engine of go-genetics: chromosomes and *)
(* populations (population.go), the selection functions                    *)
(* (selectionmethod.go), the crossover functions (crossovermethod.go) and  *)
(* the Evolver's generation loop (evolver.go).                             *)
(*                                                                         *)
(* Chromosomes are heap objects named by positive integers, because the    *)
(* code shares them by pointer (elitism, selection results).  A population *)
(* is a sequence of such names.  float64 values are modelled by exact      *)
(* extended rationals <<n, d>>: d > 0 is the fraction n/d in lowest terms, *)
(* <<1,0>> is +Inf, <<-1,0>> is -Inf and <<0,0>> is NaN, with the IEEE-754 *)
(* rules for addition, division and comparison (rounding is not modelled). *)
(***************************************************************************)
EXTENDS Integers, Sequences, FiniteSets, TLC

\* ------------------------------------------------------------------ bounds
\* Evolve (Spec): population size, genes per chromosome, crossover point
\* count and the breeding steps the continuation predicate may ask for.
MaxPop == 3
MaxGenes == 1
MaxCount == 2
MaxGen == 1
\* Evolve over more generations of a smaller population (SpecLoop).
MaxLoopPop == 2
MaxLoopGen == 2
\* A selection function called on its own (SpecSelect).
MaxCalls == 2
\* A crossover function called on its own (SpecCross).
MaxCrossGenes == 3
MaxCrossCount == 4

\* The values the caller's MutationFunction returns.
MutVals == {-1}
\* Fitness values of the populations a selection function is called on.
SelVals == {-1, 0, 1, 2}
\* Gene values of the parents a crossover function is called on.
CrossVals == {0, 1}
\* rand.Float64() draws and rates, in quarters: a draw is in [0,1).
Draws == {0, 1, 3}
Rates == {2}

\* ----------------------------------------------------------- float64 values
Abs(i) == IF i < 0 THEN -i ELSE i

Sign(i) == IF i < 0 THEN -1 ELSE IF i > 0 THEN 1 ELSE 0

RECURSIVE GCD(_, _)
GCD(a, b) == IF b = 0 THEN a ELSE GCD(b, a % b)

\* n/d with d > 0, in lowest terms.
Norm(n, d) ==
  LET g == GCD(Abs(n), d)
  IN  <<Sign(n) * (Abs(n) \div g), d \div g>>

FromInt(i) == <<i, 1>>
NaN == <<0, 0>>
PosInf == <<1, 0>>
NegInf == <<-1, 0>>
Zero == <<0, 1>>
One == <<1, 1>>
IsNaN(x) == x = NaN
\* math.MaxFloat64: above every finite value the model reaches.
MaxFloat64 == <<1000000, 1>>
NegMaxFloat64 == <<-1000000, 1>>
IsFinite(x) == x[2] > 0

\* a + b
FAdd(a, b) ==
  IF IsNaN(a) \/ IsNaN(b) THEN NaN
  ELSE IF ~IsFinite(a) /\ ~IsFinite(b) THEN (IF a = b THEN a ELSE NaN)
  ELSE IF ~IsFinite(a) THEN a
  ELSE IF ~IsFinite(b) THEN b
  ELSE Norm(a[1] * b[2] + b[1] * a[2], a[2] * b[2])

\* a / b; a zero divisor is +0.0 (a sum that starts at 0.0 is never -0.0).
FDiv(a, b) ==
  IF IsNaN(a) \/ IsNaN(b) THEN NaN
  ELSE IF ~IsFinite(b) THEN (IF IsFinite(a) THEN Zero ELSE NaN)
  ELSE IF b[1] = 0 THEN (IF a[1] = 0 THEN NaN ELSE <<Sign(a[1]), 0>>)
  ELSE IF ~IsFinite(a) THEN <<Sign(a[1]) * Sign(b[1]), 0>>
  ELSE Norm(a[1] * b[2] * Sign(b[1]), a[2] * Abs(b[1]))

\* a < b
FLt(a, b) ==
  IF IsNaN(a) \/ IsNaN(b) THEN FALSE
  ELSE IF a = b THEN FALSE
  ELSE IF a = NegInf \/ b = PosInf THEN TRUE
  ELSE IF a = PosInf \/ b = NegInf THEN FALSE
  ELSE a[1] * b[2] < b[1] * a[2]

\* ------------------------------------------------------------- chromosomes
\* &Chromosome{}: nil genes, zero fitness and weight.
EmptyChromosome == [Genes |-> <<>>, Fitness |-> 0, weight |-> Zero]

\* The object a selection result points to; 0 names a freshly allocated
\* &Chromosome{} that is in no population.
Deref(h, ref) == IF ref = 0 THEN EmptyChromosome ELSE h[ref]

Range(s) == {s[i] : i \in 1..Len(s)}

Bijections(n) ==
  {f \in [1..n -> 1..n] : \A i, j \in 1..n : i # j => f[i] # f[j]}

Perms(s) == {[i \in 1..Len(s) |-> s[f[i]]] : f \in Bijections(Len(s))}

\* ------------------------------------------------- population (population.go)
RECURSIVE SumWeightsFrom(_, _, _, _)
SumWeightsFrom(p, h, i, sum) ==
  IF i > Len(p) THEN sum ELSE SumWeightsFrom(p, h, i + 1, FAdd(sum, h[p[i]].weight))

SumWeights(p, h) == SumWeightsFrom(p, h, 1, Zero)

CountNegativeWeights(p, h) ==
  Cardinality({i \in 1..Len(p) : FLt(h[p[i]].weight, Zero)})

RECURSIVE MinWeightFrom(_, _, _, _)
MinWeightFrom(p, h, i, min) ==
  IF i > Len(p) THEN min
  ELSE LET w == h[p[i]].weight
       IN  MinWeightFrom(p, h, i + 1, IF FLt(w, min) THEN w ELSE min)

MinWeight(p, h) == MinWeightFrom(p, h, 1, MaxFloat64)

RECURSIVE ShiftWeightsFrom(_, _, _, _)
ShiftWeightsFrom(p, h, i, value) ==
  IF i > Len(p) THEN h
  ELSE ShiftWeightsFrom(p, [h EXCEPT ![p[i]].weight = FAdd(@, value)], i + 1, value)

ShiftWeights(p, h, value) == ShiftWeightsFrom(p, h, 1, value)

\* rand.Shuffle: every permutation of the slice is a possible outcome.
ShuffleChromosomes(p) == Perms(p)

\* The scan of ChromosomeWithMaxWeight; the result is a 1-based index into p.
RECURSIVE MaxWeightIndexFrom(_, _, _, _, _)
MaxWeightIndexFrom(p, h, i, maxValue, maxIndex) ==
  IF i > Len(p) THEN maxIndex
  ELSE LET w == h[p[i]].weight
           more == FLt(maxValue, w)
       IN  MaxWeightIndexFrom(p, h, i + 1, IF more THEN w ELSE maxValue,
                              IF more THEN i ELSE maxIndex)

\* p[maxIndex] panics on an empty slice (index out of range).
ChromosomeWithMaxWeight(p, h) ==
  IF Len(p) = 0 THEN [panic |-> TRUE, ref |-> 0]
  ELSE [panic |-> FALSE, ref |-> p[MaxWeightIndexFrom(p, h, 1, NegMaxFloat64, 1)]]

\* sort.Slice(p, less), less the set of pairs <<a, b>> with a less than b: the
\* slice reordered so that no element is less than an earlier one.  sort.Slice
\* is not stable, so every such order is an outcome.
SortSlice(p, less) ==
  {q \in Perms(p) : \A i, j \in 1..Len(q) : i < j => <<q[j], q[i]>> \notin less}

\* ------------------------------------- selection functions (selectionmethod.go)
\* A call's outcome: whether it panicked, the population slice and the heap as
\* the call left them, the chromosome it returned and the value it drew.
Outcome(panic, p, h, ref, draw) ==
  [panic |-> panic, population |-> p, heap |-> h, ref |-> ref, draw |-> draw]

\* int(x) of a finite float64: truncation toward zero.
Trunc(x) == Sign(x[1]) * (Abs(x[1]) \div x[2])

\* RankWeights without the + 1.0: weight = float64(i).
RankWeights_ZeroBased(p, h) ==
  [n \in DOMAIN h |->
     IF \E i \in 1..Len(p) : p[i] = n
     THEN [h[n] EXCEPT !.weight = FromInt((CHOOSE i \in 1..Len(p) : p[i] = n) - 1)]
     ELSE h[n]]

\* for i := 0; i < len(population); i++ { population[i].weight = float64(i) + 1.0 }
RECURSIVE RankWeightsFrom(_, _, _)
RankWeightsFrom(p, h, i) ==
  IF i > Len(p) THEN h
  ELSE RankWeightsFrom(p, [h EXCEPT ![p[i]].weight = FromInt(i)], i + 1)

RankWeights(p, h) == RankWeightsFrom(p, h, 1)

\* The cumulative-weight scan shared by RankFunction and RouletteFunction: the
\* first chromosome with rand < sum, or `fallback` when there is none.
RECURSIVE CumulativePick(_, _, _, _, _, _)
CumulativePick(p, h, i, sum, rand, fallback) ==
  IF i > Len(p) THEN fallback
  ELSE LET s == FAdd(sum, h[p[i]].weight)
       IN  IF FLt(rand, s) THEN p[i] ELSE CumulativePick(p, h, i + 1, s, rand, fallback)

\* The values rand.Intn(int(total)) can return.
RankDraws(p, h) == 0..(Trunc(SumWeights(p, RankWeights(p, h))) - 1)

\* RankFunction with its draw r; rand.Intn(n) panics when n <= 0.
RankFunction(p, h, r) ==
  LET h1 == RankWeights(p, h)
      total == SumWeights(p, h1)
  IN  IF Trunc(total) <= 0 THEN Outcome(TRUE, p, h1, 0, Zero)
      ELSE Outcome(FALSE, p, h1, CumulativePick(p, h1, 1, Zero, FromInt(r), 0), FromInt(r))

RankOutcomes(p, h) ==
  IF RankDraws(p, h) = {} THEN {RankFunction(p, h, 0)}
  ELSE {RankFunction(p, h, r) : r \in RankDraws(p, h)}

\* population[i].weight = population[i].weight / total
RECURSIVE DivideWeightsFrom(_, _, _, _)
DivideWeightsFrom(p, h, i, total) ==
  IF i > Len(p) THEN h
  ELSE DivideWeightsFrom(p, [h EXCEPT ![p[i]].weight = FDiv(@, total)], i + 1, total)

\* RouletteFunction after its sort, up to the draw: the weights divided by
\* their total and, when one is negative, shifted by MinWeight.
RouletteWeights(p, h) ==
  LET h1 == DivideWeightsFrom(p, h, 1, SumWeights(p, h))
  IN  IF CountNegativeWeights(p, h1) > 0
      THEN ShiftWeights(p, h1, MinWeight(p, h1))
      ELSE h1

\* The partial sums of the weights, in scan order.
RECURSIVE PartialSums(_, _, _, _)
PartialSums(p, h, i, sum) ==
  IF i > Len(p) THEN {}
  ELSE LET s == FAdd(sum, h[p[i]].weight)
       IN  {s} \cup PartialSums(p, h, i + 1, s)

\* rand.Float64() is any real in [0,1).  The scan only compares the draw with
\* the partial sums, so one draw per interval between them gives every outcome:
\* 0 and each partial sum that lies in [0,1).
RouletteDraws(p, h) ==
  {Zero} \cup {s \in PartialSums(p, h, 1, Zero) : ~FLt(s, Zero) /\ FLt(s, One)}

\* RouletteFunction with the order q its sort produced and its draw r; the
\* fallback population[0] panics on an empty population (it is only evaluated
\* when the scan returns nothing).
RouletteFunction(q, h, r) ==
  LET h1 == RouletteWeights(q, h)
      ref == CumulativePick(q, h1, 1, Zero, r, 0)
  IN  IF Len(q) = 0 THEN Outcome(TRUE, q, h1, 0, r)
      ELSE Outcome(FALSE, q, h1, IF ref = 0 THEN q[1] ELSE ref, r)

RouletteOutcomes(p, h) ==
  LET FitnessGreater == {<<a, b>> \in Range(p) \X Range(p) : h[a].Fitness > h[b].Fitness}
  IN  UNION {{RouletteFunction(q, h, r) : r \in RouletteDraws(q, RouletteWeights(q, h))} :
               q \in SortSlice(p, FitnessGreater)}

\* TournamentFunction with the order q its shuffle produced and the value
\* n of rand.Intn(len(population)-1), which panics when len(population)-1 <= 0.
TournamentFunction(q, h, n) ==
  IF Len(q) - 1 <= 0 THEN Outcome(TRUE, q, h, 0, Zero)
  ELSE LET rand == n + 1
           best == ChromosomeWithMaxWeight(SubSeq(q, 1, rand), h)
       IN  Outcome(best.panic, q, h, best.ref, FromInt(rand))

TournamentOutcomes(p, h) ==
  UNION {{TournamentFunction(q, h, n) : n \in 0..(IF Len(q) > 1 THEN Len(q) - 2 ELSE 0)} :
           q \in ShuffleChromosomes(p)}

\* selectionFunctionForType
SelectionOutcomes(t, p, h) ==
  CASE t = "rank" -> RankOutcomes(p, h)
    [] t = "roulette" -> RouletteOutcomes(p, h)
    [] t = "tournament" -> TournamentOutcomes(p, h)

\* ------------------------------------- crossover functions (crossovermethod.go)
\* The capacity of a nil []int after n one-element appends (the runtime doubles
\* a small slice's capacity when it is full): 0, 1, 2, 4, 4, 8, ...
RECURSIVE AppendCap(_)
AppendCap(n) ==
  IF n = 0 THEN 0
  ELSE LET c == AppendCap(n - 1)
       IN  IF n <= c THEN c ELSE IF c = 0 THEN 1 ELSE 2 * c

Swap(s, i, j) == [s EXCEPT ![i] = s[j], ![j] = s[i]]

\* The shuffle loop of PointFunction: for i := 0; i < len(indexes)-1; i++ with
\* j = js[i] the draw rand.Intn(len(indexes)-i) + i (positions 1-based here).
RECURSIVE ShuffleIndexes(_, _, _)
ShuffleIndexes(indexes, js, i) ==
  IF i > Len(indexes) - 1 THEN indexes
  ELSE ShuffleIndexes(IF i = js[i] THEN indexes ELSE Swap(indexes, i, js[i]), js, i + 1)

\* The draws of that loop: js[i] in i..len(indexes).
ShuffleDraws(n) ==
  IF n <= 1 THEN {<<>>}
  ELSE {js \in [1..(n - 1) -> 1..n] : \A i \in 1..(n - 1) : js[i] >= i}

\* sort.Ints leaving the slice as it found it.
SortInts_Unsorted(s) == s

\* sort.Ints
RECURSIVE SortInts(_)
SortInts(s) ==
  IF Len(s) = 0 THEN <<>>
  ELSE LET m == CHOOSE i \in 1..Len(s) : \A k \in 1..Len(s) : s[i] <= s[k]
       IN  <<s[m]>> \o SortInts(SubSeq(s, 1, m - 1) \o SubSeq(s, m + 1, Len(s)))

\* The segment loops of PointFunction over the bracketed crossover points cp:
\* bracket i (0-based) writes cA's genes when i is even and cB's when odd.
\* cB.Genes[j] out of range panics.
RECURSIVE PointSegments(_, _, _, _, _)
PointSegments(child, a, b, cp, i) ==
  IF i > Len(cp) - 1 THEN [panic |-> FALSE, Genes |-> child]
  ELSE LET inside(j) == cp[i] <= j - 1 /\ j - 1 < cp[i + 1]
       IN  IF (i - 1) % 2 = 1 /\ \E j \in 1..Len(child) : inside(j) /\ j > Len(b)
           THEN [panic |-> TRUE, Genes |-> <<>>]
           ELSE PointSegments([j \in 1..Len(child) |->
                                 IF inside(j) THEN (IF (i - 1) % 2 = 0 THEN a[j] ELSE b[j])
                                 ELSE child[j]],
                              a, b, cp, i + 1)

\* PointFunction on gene vectors a and b with the shuffle draws js.  The slice
\* indexes[0:count] panics unless 0 <= count <= cap(indexes); past
\* len(indexes) it reads the zeroed rest of the backing array.
PointFunction(a, b, count, js) ==
  LET indexes == ShuffleIndexes([i \in 1..Len(a) |-> i], js, 1)
      backing == [i \in 1..AppendCap(Len(a)) |-> IF i <= Len(a) THEN indexes[i] ELSE 0]
  IN  IF count < 0 \/ count > AppendCap(Len(a))
      THEN [panic |-> TRUE, Genes |-> <<>>, points |-> <<>>]
      ELSE LET crossoverPoints == SortInts(SubSeq(backing, 1, count))
               child == PointSegments(a, a, b, <<0>> \o crossoverPoints \o <<Len(a)>>, 1)
           IN  [panic |-> child.panic, Genes |-> child.Genes, points |-> crossoverPoints]

PointOutcomes(a, b, count) ==
  {PointFunction(a, b, count, js) : js \in ShuffleDraws(Len(a))}

\* UniformFunction with coins[i] the value of rand.Intn(2) for gene i.
UniformFunction(a, b, count, coins) ==
  IF \E j \in 1..Len(a) : coins[j] # 1 /\ j > Len(b)
  THEN [panic |-> TRUE, Genes |-> <<>>, points |-> <<>>]
  ELSE [panic |-> FALSE,
        Genes |-> [j \in 1..Len(a) |-> IF coins[j] = 1 THEN a[j] ELSE b[j]],
        points |-> <<>>]

UniformOutcomes(a, b, count) ==
  {UniformFunction(a, b, count, coins) : coins \in [1..Len(a) -> {0, 1}]}

\* crossoverFunctionForType
CrossoverOutcomes(t, a, b, count) ==
  CASE t = "point" -> PointOutcomes(a, b, count)
    [] t = "uniform" -> UniformOutcomes(a, b, count)

\* --------------------------------------------------------------------- state
VARIABLES
  pc,             \* where the program is: start, predicate, breed, done, panic
                  \* (Evolve); select, crossover (a single function under test)
  e,              \* the Evolver: Configuration and the functions it was given
  heap,           \* the live chromosomes, by name
  callerPop,      \* the backing array of the slice the caller passed to Evolve
  population,     \* Evolve's local slice `population`
  inPlace,        \* whether `population` still shares the caller's backing array
  newPopulation,  \* breedSingleGeneration's newPopulation while it is built
  elite,          \* applyElitism's result in the current breeding step
  eliteGenes,     \* the elite chromosomes' genes when applyElitism returned
  shown,          \* the population passed to the last shouldContinue call
  lastResult,     \* what that call returned
  calls,          \* calls of shouldContinue (of the function under test)
  breeds,         \* completed breedSingleGeneration calls
  evals,          \* completed calculateFitnesses passes
  validations,    \* times the configuration checks ran
  errors,         \* what log.Errorln reported
  lastCall,       \* the last call of a selection or crossover function
  plain,          \* whether each child of the breeding step so far is an
                  \* unmutated copy of a selected chromosome (no crossover)
  limit           \* the breeding steps the continuation predicate may ask for

vars == <<pc, e, heap, callerPop, population, inPlace, newPopulation, elite,
          eliteGenes, shown, lastResult, calls, breeds, evals, validations,
          errors, lastCall, plain, limit>>

SelectionMethods == {"rank", "roulette", "tournament"}
CrossoverMethods == {"point", "uniform"}
Generators == {"index", "down", "alternate"}

NoCall ==
  [kind |-> "none", panic |-> FALSE, before |-> <<>>, heapBefore |-> <<>>,
   ref |-> 0, draw |-> Zero, count |-> 0, points |-> <<>>]

\* The generating functions (i, j) -> gene the model's callers pass.
GeneratingFunction(g, i, j) ==
  CASE g = "index" -> i
    [] g = "down" -> 0 - i
    [] g = "alternate" -> IF i % 2 = 0 THEN 1 ELSE -1

\* GeneratePopulation: chromosome i (0-based) gets the name i + 1.
GeneratePopulation(populationSize, chromosomeLength, g) ==
  [i \in 1..populationSize |->
     [Genes |-> [j \in 1..chromosomeLength |-> GeneratingFunction(g, i - 1, j - 1)],
      Fitness |-> 0, weight |-> Zero]]

\* NewEvolverConfiguration / NewEvolver
NewEvolver(selection, crossover, count, elitism, crossoverRate, mutationRate) ==
  [Configuration |->
     [SelectionMethod |-> selection, CrossoverMethod |-> crossover, Count |-> count,
      Elitism |-> elitism, CrossoverRate |-> crossoverRate,
      MutationRate |-> mutationRate]]

\* ------------------------------------------------------- Evolver (evolver.go)
RECURSIVE SumGenes(_, _)
SumGenes(genes, i) == IF i > Len(genes) THEN 0 ELSE genes[i] + SumGenes(genes, i + 1)

\* The caller's fitness function: the sum of the genes.
FitnessFunction(c) == SumGenes(c.Genes, 1)

RECURSIVE CalculateFitnessesFrom(_, _, _)
CalculateFitnessesFrom(p, h, i) ==
  IF i > Len(p) THEN h
  ELSE LET fitness == FitnessFunction(h[p[i]])
       IN  CalculateFitnessesFrom(
             p, [h EXCEPT ![p[i]].Fitness = fitness, ![p[i]].weight = FromInt(fitness)],
             i + 1)

calculateFitnesses(p, h) == CalculateFitnessesFrom(p, h, 1)

\* SortByFitness with the sort left out.
SortByFitness_Unsorted(p, h) == {p}

\* sort.Slice(population, Fitness ascending): the orders it can produce.
SortByFitness(p, h) ==
  LET FitnessLess == {<<a, b>> \in Range(p) \X Range(p) : h[a].Fitness < h[b].Fitness}
  IN  SortSlice(p, FitnessLess)

\* The three checks at the head of Evolve and what each logs.
Violations(cfg, p) ==
  {m \in {"empty", "crossover", "elitism"} :
     \/ m = "empty" /\ Len(p) = 0
     \/ m = "crossover" /\ cfg.Count >= Len(p)
     \/ m = "elitism" /\ cfg.Elitism > Len(p)}

\* applyElitism taking population[i], the front of the slice.
applyElitism_Front(cfg, p) ==
  IF cfg.Elitism > Len(p) THEN [panic |-> TRUE, chromosomes |-> <<>>]
  ELSE [panic |-> FALSE, chromosomes |-> [i \in 1..cfg.Elitism |-> p[i]]]

\* applyElitism: population[len-1], population[len-2], ...; panics (index out
\* of range) when Elitism > len(population).
applyElitism(cfg, p) ==
  IF cfg.Elitism > Len(p) THEN [panic |-> TRUE, chromosomes |-> <<>>]
  ELSE [panic |-> FALSE,
        chromosomes |-> [i \in 1..cfg.Elitism |-> p[Len(p) - i + 1]]]

shouldCrossover(cfg, draw) == draw <= cfg.CrossoverRate
shouldMutate(cfg, draw) == draw <= cfg.MutationRate

\* copy(dst, src): min(len(dst), len(src)) elements.
CopyGenes(dst, src) ==
  [j \in 1..Len(dst) |-> IF j <= Len(src) THEN src[j] ELSE dst[j]]

\* The mutation loop of breedChild: draws[i] is the rand.Float64() of gene i
\* and values[i] what MutationFunction returns for it.
Mutate(cfg, genes, draws, values) ==
  [j \in 1..Len(genes) |-> IF shouldMutate(cfg, draws[j]) THEN values[j] ELSE genes[j]]

\* What the loop can leave in the child's genes, over all draws and all values
\* the caller's (possibly stochastic) MutationFunction returns.
MutationOutcomes(cfg, genes) ==
  {[Genes |-> Mutate(cfg, genes, draws, values),
    mutated |-> \E j \in 1..Len(genes) : shouldMutate(cfg, draws[j])] :
     draws \in [1..Len(genes) -> Draws], values \in [1..Len(genes) -> MutVals]}

\* A breedChild call up to its mutation loop: whether it panicked, the
\* population and heap its selection calls left, and the child.
Bred(panic, q, h, c, crossed) ==
  [panic |-> panic, population |-> q, heap |-> h, child |-> c, crossed |-> crossed]

\* make([]float64, len(population[0].Genes))
ZeroGenes(p, h) == [j \in 1..Len(h[p[1]].Genes) |-> 0]

\* The crossover branch of breedChild: two selection calls, in argument order,
\* then the crossover function; the child keeps the zero Fitness and weight of
\* the chromosome the crossover function returns.
CrossedChildren(cfg, p, h) ==
  LET sel(q, hh) == SelectionOutcomes(cfg.SelectionMethod, q, hh)
  IN  UNION {IF o1.panic THEN {Bred(TRUE, o1.population, o1.heap, EmptyChromosome, TRUE)}
             ELSE UNION {IF o2.panic
                         THEN {Bred(TRUE, o2.population, o2.heap, EmptyChromosome, TRUE)}
                         ELSE {IF x.panic
                               THEN Bred(TRUE, o2.population, o2.heap, EmptyChromosome, TRUE)
                               ELSE Bred(FALSE, o2.population, o2.heap,
                                         [Genes |-> CopyGenes(ZeroGenes(p, h), x.Genes),
                                          Fitness |-> 0, weight |-> Zero], TRUE) :
                               x \in CrossoverOutcomes(cfg.CrossoverMethod,
                                                       Deref(o2.heap, o1.ref).Genes,
                                                       Deref(o2.heap, o2.ref).Genes,
                                                       cfg.Count)} :
                         o2 \in sel(o1.population, o1.heap)} :
             o1 \in sel(p, h)}

\* The other branch: one selection call, whose result is copied.
CopiedChildren(cfg, p, h) ==
  {IF o.panic THEN Bred(TRUE, o.population, o.heap, EmptyChromosome, FALSE)
   ELSE LET chromosome == Deref(o.heap, o.ref)
        IN  Bred(FALSE, o.population, o.heap,
                 [Genes |-> CopyGenes(ZeroGenes(p, h), chromosome.Genes),
                  Fitness |-> chromosome.Fitness, weight |-> chromosome.weight], FALSE) :
   o \in SelectionOutcomes(cfg.SelectionMethod, p, h)}

\* breedChild up to its mutation loop, over the draw of shouldCrossover.
BredChildren(cfg, p, h) ==
  UNION {IF shouldCrossover(cfg, dc) THEN CrossedChildren(cfg, p, h)
         ELSE CopiedChildren(cfg, p, h) : dc \in Draws}

\* The chromosomes still reachable: garbage is dropped from the heap.
Live(h, names) == [n \in (DOMAIN h) \cap names |-> h[n]]

\* NewName handing out a chromosome that is already in use: the child is
\* written into an existing chromosome.
NewName_Reused(h) == CHOOSE n \in DOMAIN h : \A m \in DOMAIN h : n <= m

\* The name of a newly allocated chromosome.
NewName(h) ==
  CHOOSE n \in 1..(Cardinality(DOMAIN h) + 1) :
    n \notin DOMAIN h /\ \A m \in 1..(n - 1) : m \in DOMAIN h

\* child := &Chromosome{...}: the heap with the child under its name.
Alloc(h, c) == [n \in (DOMAIN h) \cup {NewName(h)} |-> IF n = NewName(h) THEN c ELSE h[n]]

\* The rest of the loop body of Evolve once breedSingleGeneration has returned
\* newPop: population = newPop, calculateFitnesses, sort.Slice.  cp is the
\* caller's backing array, which this assignment does not touch.
NextGeneration(h, newPop, cp) ==
  LET h1 == calculateFitnesses(newPop, h)
  IN  \E q \in SortByFitness(newPop, h1) :
        /\ population' = q
        /\ heap' = Live(h1, Range(q) \cup Range(cp))
        /\ callerPop' = cp
        /\ inPlace' = FALSE
        /\ newPopulation' = <<>>
        /\ breeds' = breeds + 1
        /\ evals' = evals + 1
        /\ pc' = "predicate"

\* EvolveBegin returning after a failed check.
EvolveBegin_Fatal ==
  /\ pc = "start"
  /\ errors' = errors \cup Violations(e.Configuration, population)
  /\ validations' = validations + 1
  /\ IF Violations(e.Configuration, population) # {}
     THEN /\ pc' = "done"
          /\ UNCHANGED <<heap, callerPop, population, evals>>
     ELSE /\ LET h1 == calculateFitnesses(population, heap)
             IN  \E q \in SortByFitness(population, h1) :
                   /\ population' = q
                   /\ callerPop' = q
                   /\ heap' = h1
          /\ evals' = evals + 1
          /\ pc' = "predicate"
  /\ UNCHANGED <<e, inPlace, newPopulation, elite, eliteGenes, shown, lastResult,
                 calls, breeds, lastCall, plain, limit>>

\* Evolve up to its loop: the three checks (log only), calculateFitnesses and
\* the sort of the caller's slice.
EvolveBegin ==
  /\ pc = "start"
  /\ LET h1 == calculateFitnesses(population, heap)
     IN  \E q \in SortByFitness(population, h1) :
           /\ population' = q
           /\ callerPop' = q
           /\ heap' = h1
  /\ errors' = errors \cup Violations(e.Configuration, population)
  /\ validations' = validations + 1
  /\ evals' = evals + 1
  /\ pc' = "predicate"
  /\ UNCHANGED <<e, inPlace, newPopulation, elite, eliteGenes, shown, lastResult,
                 calls, breeds, lastCall, plain, limit>>

\* Continues with the predicate's answer ignored.
Continues_Always(b) == TRUE

\* for shouldContinue(e.Configuration, population) { ... }: the loop body runs
\* when the call returned true.
Continues(b) == b

\* The loop condition: shouldContinue(e.Configuration, population) returns b.
\* On false Evolve returns.  On true breedSingleGeneration starts: applyElitism
\* and newPopulation = elite; when the elite fills the population there is no
\* child to breed and the generation is complete.
ShouldContinue ==
  /\ pc = "predicate"
  /\ \E b \in BOOLEAN :
       /\ b => breeds < limit
       /\ lastResult' = b
       /\ calls' = calls + 1
       /\ shown' = population
       /\ plain' = TRUE
       /\ IF ~Continues(b)
          THEN /\ pc' = "done"
               /\ UNCHANGED <<heap, callerPop, population, inPlace, newPopulation,
                              elite, eliteGenes, breeds, evals>>
          ELSE LET el == applyElitism(e.Configuration, population)
               IN  IF el.panic
                   THEN /\ pc' = "panic"
                        /\ UNCHANGED <<heap, callerPop, population, inPlace,
                                       newPopulation, elite, eliteGenes, breeds, evals>>
                   ELSE /\ elite' = el.chromosomes
                        /\ eliteGenes' = [i \in 1..Len(el.chromosomes) |->
                                            heap[el.chromosomes[i]].Genes]
                        /\ IF Len(el.chromosomes) >= Len(population)
                           THEN NextGeneration(heap, el.chromosomes, callerPop)
                           ELSE /\ newPopulation' = el.chromosomes
                                /\ pc' = "breed"
                                /\ UNCHANGED <<heap, callerPop, population, inPlace,
                                               breeds, evals>>
  /\ UNCHANGED <<e, validations, errors, lastCall, limit>>

\* One pass of the loop of breedSingleGeneration: breedChild and the append.
\* The selection functions reorder and reweigh `population`, which is the
\* caller's backing array during the first breeding step.  The pass that fills
\* newPopulation ends breedSingleGeneration, and the loop body of Evolve
\* completes.
BreedChild ==
  /\ pc = "breed"
  /\ Len(newPopulation) < Len(population)
  /\ \E r \in BredChildren(e.Configuration, population, heap) :
         LET cp == IF inPlace THEN r.population ELSE callerPop
         IN  IF r.panic
             THEN /\ pc' = "panic"
                  /\ population' = r.population
                  /\ callerPop' = cp
                  /\ heap' = r.heap
                  /\ UNCHANGED <<inPlace, newPopulation, breeds, evals, plain>>
             ELSE \E m \in MutationOutcomes(e.Configuration, r.child.Genes) :
                    LET child == [r.child EXCEPT !.Genes = m.Genes]
                        h1 == Alloc(r.heap, child)
                        np == Append(newPopulation, NewName(r.heap))
                    IN  /\ plain' = (plain /\ ~r.crossed /\ ~m.mutated)
                        /\ IF Len(np) < Len(population)
                           THEN /\ newPopulation' = np
                                /\ population' = r.population
                                /\ callerPop' = cp
                                /\ heap' = h1
                                /\ UNCHANGED <<pc, inPlace, breeds, evals>>
                           ELSE NextGeneration(h1, np, cp)
  /\ UNCHANGED <<e, elite, eliteGenes, shown, lastResult, calls, validations,
                 errors, lastCall, limit>>

\* The crossover methods NewEvolverConfigurationFromOptimizerConfiguration
\* builds: "uniform" with count 0 and "<count>-point".
CrossoverConfigurations ==
  {<<"uniform", 0>>} \cup {<<"point", count>> : count \in 0..MaxCount}

\* The state when a caller holding the chromosomes h (named 1..n, its slice
\* in that order) calls a function at `at` with the evolver ev.
Called(at, ev, h, lim) ==
  /\ pc = at
  /\ e = ev
  /\ heap = h
  /\ population = [i \in DOMAIN h |-> i]
  /\ callerPop = [i \in DOMAIN h |-> i]
  /\ inPlace = TRUE
  /\ newPopulation = <<>>
  /\ elite = <<>>
  /\ eliteGenes = <<>>
  /\ shown = <<>>
  /\ lastResult = FALSE
  /\ calls = 0
  /\ breeds = 0
  /\ evals = 0
  /\ validations = 0
  /\ errors = {}
  /\ lastCall = NoCall
  /\ plain = TRUE
  /\ limit = lim

\* A caller builds a population with GeneratePopulation and an Evolver with
\* NewEvolver, and calls Evolve.
EvolveCalled(maxPop, maxGen) ==
  \E n \in 0..maxPop, len \in 1..MaxGenes, g \in Generators,
     selection \in SelectionMethods, crossover \in CrossoverConfigurations,
     elitism \in 0..(maxPop + 1), crossoverRate \in Rates, mutationRate \in Rates :
    Called("start",
           NewEvolver(selection, crossover[1], crossover[2], elitism,
                      crossoverRate, mutationRate),
           GeneratePopulation(n, len, g), maxGen)

Init == EvolveCalled(MaxPop, MaxGen)

Next == EvolveBegin \/ ShouldContinue \/ BreedChild

Spec == Init /\ [][Next]_vars

InitLoop == EvolveCalled(MaxLoopPop, MaxLoopGen)

SpecLoop == InitLoop /\ [][Next]_vars

\* The scenario of one generation: genes [[0],[1],[2],[3]], fitness equal to
\* the gene, elitism 1, crossover rate 0, mutation rate 0, rank selection.
InitScenario ==
  \E crossover \in CrossoverConfigurations :
    Called("start", NewEvolver("rank", crossover[1], crossover[2], 1, 0, 0),
           GeneratePopulation(4, 1, "index"), 1)

SpecScenario == InitScenario /\ [][Next]_vars

\* ------------------------------------------ a selection function on its own
\* A population as calculateFitnesses leaves it: weight = Fitness.
Evaluated(fitnesses) ==
  [i \in 1..Len(fitnesses) |->
     [Genes |-> <<fitnesses[i]>>, Fitness |-> fitnesses[i],
      weight |-> FromInt(fitnesses[i])]]

InitSelect ==
  \E n \in 0..MaxPop, selection \in SelectionMethods :
    \E fitnesses \in [1..n -> SelVals] :
      Called("select", NewEvolver(selection, "uniform", 0, 0, 2, 2),
             Evaluated(fitnesses), 0)

\* e.Configuration.SelectionMethod.Function(population)
SelectCall ==
  /\ pc = "select"
  /\ calls < MaxCalls
  /\ \E o \in SelectionOutcomes(e.Configuration.SelectionMethod, population, heap) :
       /\ lastCall' = [kind |-> e.Configuration.SelectionMethod, panic |-> o.panic,
                       before |-> population, heapBefore |-> heap, ref |-> o.ref,
                       draw |-> o.draw, count |-> 0, points |-> <<>>]
       /\ population' = o.population
       /\ callerPop' = o.population
       /\ heap' = o.heap
       /\ pc' = IF o.panic THEN "panic" ELSE "select"
  /\ calls' = calls + 1
  /\ UNCHANGED <<e, inPlace, newPopulation, elite, eliteGenes, shown, lastResult,
                 breeds, evals, validations, errors, plain, limit>>

SpecSelect == InitSelect /\ [][SelectCall]_vars

\* ------------------------------------------- a crossover function on its own
Parents(a, b) ==
  [i \in 1..2 |-> [Genes |-> IF i = 1 THEN a ELSE b, Fitness |-> 0, weight |-> Zero]]

InitCross ==
  \E len \in 0..MaxCrossGenes, crossover \in CrossoverMethods, count \in 0..MaxCrossCount :
    \E a \in [1..len -> CrossVals], b \in [1..len -> CrossVals] :
      Called("crossover", NewEvolver("rank", crossover, count, 0, 2, 2), Parents(a, b), 0)

\* e.Configuration.CrossoverMethod.Function(cA, cB, Count) with cA and cB the
\* caller's two chromosomes; the child is a new chromosome.
CrossoverCall ==
  /\ pc = "crossover"
  /\ \E x \in CrossoverOutcomes(e.Configuration.CrossoverMethod,
                                 heap[population[1]].Genes, heap[population[2]].Genes,
                                 e.Configuration.Count) :
       /\ lastCall' = [kind |-> e.Configuration.CrossoverMethod, panic |-> x.panic,
                       before |-> population, heapBefore |-> heap,
                       ref |-> IF x.panic THEN 0 ELSE NewName(heap),
                       draw |-> Zero, count |-> e.Configuration.Count,
                       points |-> x.points]
       /\ heap' = IF x.panic THEN heap
                  ELSE Alloc(heap, [Genes |-> x.Genes, Fitness |-> 0, weight |-> Zero])
       /\ pc' = IF x.panic THEN "panic" ELSE "done"
  /\ calls' = calls + 1
  /\ UNCHANGED <<e, callerPop, population, inPlace, newPopulation, elite, eliteGenes,
                 shown, lastResult, breeds, evals, validations, errors, plain, limit>>

SpecCross == InitCross /\ [][CrossoverCall]_vars

\* ------------------------------------------------------------------- claims
Ascending(p, h) ==
  \A i \in 1..(Len(p) - 1) : h[p[i]].Fitness <= h[p[i + 1]].Fitness

\* C1: whenever Evolve is about to call the continuation predicate (after
\* generation 0 and after every later generation) the population it passes is
\* evaluated and sorted ascending by fitness, so its last element has the
\* maximum fitness, whatever the selection method did to the old population.
C1_SortedAtPredicate ==
  pc = "predicate" =>
    /\ Ascending(population, heap)
    /\ \A i \in 1..Len(population) :
         /\ heap[population[i]].Fitness = FitnessFunction(heap[population[i]])
         /\ heap[population[i]].Fitness <= heap[population[Len(population)]].Fitness

\* A generation bred with tournament selection (which shuffled the old
\* population) is passed to the predicate, with distinct fitnesses in it.
C1_Witness ==
  /\ pc = "predicate"
  /\ breeds = 1
  /\ e.Configuration.SelectionMethod = "tournament"
  /\ Len(population) = 3
  /\ callerPop # shown
  /\ heap[population[1]].Fitness < heap[population[3]].Fitness

\* C2: in a breeding step with elitism k <= population size, the elite are the
\* chromosomes at the last k positions of the population the predicate saw
\* (none of the others is fitter), they head the new population, their genes
\* stay as they were while the children are bred and mutated, and they are in
\* the generation that results.
C2_ElitePreserved ==
  /\ pc = "breed" =>
       /\ Len(elite) = e.Configuration.Elitism
       /\ \A i \in 1..Len(elite) :
            /\ elite[i] = shown[Len(shown) - i + 1]
            /\ newPopulation[i] = elite[i]
            /\ heap[elite[i]].Genes = eliteGenes[i]
            /\ \A j \in 1..(Len(shown) - Len(elite)) :
                 heap[shown[j]].Fitness <= heap[elite[i]].Fitness
  /\ (pc = "predicate" /\ breeds >= 1) =>
       /\ Len(elite) = e.Configuration.Elitism
       /\ \A i \in 1..Len(elite) :
            /\ elite[i] = shown[Len(shown) - i + 1]
            /\ \E j \in 1..Len(population) : population[j] = elite[i]
            /\ heap[elite[i]].Genes = eliteGenes[i]

\* A generation of three bred by roulette selection with one elite and a
\* mutated child.
C2_Witness ==
  /\ pc = "predicate"
  /\ breeds = 1
  /\ Len(population) = 3
  /\ Len(elite) = 1
  /\ e.Configuration.SelectionMethod = "roulette"
  /\ \E j \in 1..3 : population[j] # elite[1] /\ heap[population[j]].Genes = <<-1>>
  /\ heap[elite[1]].Genes # <<-1>>

\* C3: the continuation predicate alone stops Evolve.  Its first call follows
\* generation 0's evaluation with no breeding before it; every breeding step
\* follows a call that returned true; Evolve returns only at a call that
\* returned false, with nothing bred or evaluated after it.  So at the n-th
\* call n-1 breeding steps and n evaluation passes have run.
C3_Counts ==
  /\ pc = "start" => calls = 0 /\ breeds = 0 /\ evals = 0
  /\ pc = "predicate" => breeds = calls /\ evals = calls + 1
  /\ pc = "breed" => lastResult /\ breeds = calls - 1 /\ evals = calls
  /\ pc = "panic" => lastResult /\ breeds = calls - 1 /\ evals = calls
  /\ pc = "done" => ~lastResult /\ breeds = calls - 1 /\ evals = calls

C3_Steps ==
  /\ (calls' = calls + 1 /\ ~lastResult') =>
       pc' = "done" /\ breeds' = breeds /\ evals' = evals /\ heap' = heap
  /\ (breeds' # breeds \/ pc' = "breed") => lastResult'
  /\ pc' = "done" => calls' = calls + 1 /\ ~lastResult'
  /\ pc = "done" => pc' = "done"

C3_PredicateSoleAuthority == [](C3_Counts) /\ [][C3_Steps]_vars

\* Evolve returns at the third call of the predicate, after two breeding steps.
C3_Witness == pc = "done" /\ calls = 3 /\ breeds = 2 /\ evals = 3

\* C4: when Evolve returns after at least one breeding step, the caller's
\* population is the final generation: the chromosomes, in the order, that the
\* last call of the continuation predicate was given.
C4_InPlace == (pc = "done" /\ breeds >= 1) => callerPop = shown

\* C5: the three configuration checks run once, before the first fitness
\* evaluation, and only report: whatever they log, generation 0 is evaluated
\* and sorted, the predicate is called, and a true answer starts a breeding
\* step, which panics in applyElitism when elitism > population size.
C5_Reported ==
  /\ validations = (IF pc = "start" THEN 0 ELSE 1)
  /\ pc # "start" =>
       /\ errors = Violations(e.Configuration, callerPop)
       /\ evals >= 1
  /\ pc = "predicate" => ENABLED ShouldContinue
  /\ (pc # "start" /\ e.Configuration.Elitism > Len(callerPop) /\ calls >= 1) =>
       \/ pc = "done" /\ ~lastResult
       \/ pc = "panic" /\ lastResult /\ breeds = 0 /\ calls = 1

C5_Steps ==
  /\ validations' # validations =>
       evals = 0 /\ evals' = 1 /\ pc' = "predicate" /\ Ascending(population', heap')
  /\ (calls' = calls + 1 /\ lastResult') =>
       IF e.Configuration.Elitism > Len(population) THEN pc' = "panic"
       ELSE pc' \in {"breed", "predicate"}

C5_ValidationOnlyReports == [](C5_Reported) /\ [][C5_Steps]_vars

\* With elitism above the population size the check was logged, generation 0
\* was evaluated and the first breeding step panicked.
C5_Witness ==
  /\ pc = "panic"
  /\ "elitism" \in errors
  /\ Len(callerPop) = 2
  /\ evals = 1
  /\ calls = 1
  /\ breeds = 0

IsPermutation(p, q) ==
  /\ Len(p) = Len(q)
  /\ \A n \in Range(p) \cup Range(q) :
       Cardinality({i \in 1..Len(p) : p[i] = n}) = Cardinality({i \in 1..Len(q) : q[i] = n})

\* C6: on every non-empty population, one of a single chromosome included,
\* TournamentFunction completes; it only permutes the population, draws a
\* group size g in 1..populationSize-1, and returns the first chromosome of
\* maximum weight among the first g of the shuffled order, a member of the
\* population it was given.
C6_TournamentReturnsMember ==
  (lastCall.kind = "tournament" /\ Len(lastCall.before) >= 1) =>
    /\ ~lastCall.panic
    /\ IsPermutation(population, lastCall.before)
    /\ lastCall.ref \in Range(lastCall.before)
    /\ LET g == lastCall.draw[1]
       IN  /\ g \in 1..(Len(population) - 1)
           /\ \E i \in 1..g :
                /\ population[i] = lastCall.ref
                /\ \A j \in 1..g :
                     ~FLt(heap[population[i]].weight, heap[population[j]].weight)
                /\ \A j \in 1..(i - 1) :
                     FLt(heap[population[j]].weight, heap[population[i]].weight)

\* The least k with k(k+1)/2 > r: the position whose cumulative rank weight
\* first exceeds r.
RankPosition(r) == CHOOSE k \in 1..(r + 1) : (k * (k + 1)) \div 2 > r /\ (k * (k - 1)) \div 2 <= r

\* C7: on a population of n >= 1 chromosomes RankFunction leaves the order
\* alone, gives the chromosome at position i (1-based) weight i, draws an
\* integer in [0, n(n+1)/2) and returns the first chromosome whose cumulative
\* weight exceeds the draw: a member of the population of weight >= 1, never
\* the empty fallback chromosome.
C7_RankReturnsMember ==
  (lastCall.kind = "rank" /\ Len(lastCall.before) >= 1) =>
    LET n == Len(population)
        r == lastCall.draw[1]
    IN  /\ ~lastCall.panic
        /\ population = lastCall.before
        /\ \A i \in 1..n : heap[population[i]].weight = <<i, 1>>
        /\ lastCall.draw[2] = 1 /\ r >= 0 /\ r < (n * (n + 1)) \div 2
        /\ lastCall.ref # 0
        /\ lastCall.ref = population[RankPosition(r)]
        /\ ~FLt(heap[lastCall.ref].weight, One)

\* The largest draw on three chromosomes, 5, returns the last one.
C7_Witness ==
  /\ lastCall.kind = "rank"
  /\ Len(population) = 3
  /\ lastCall.draw = <<5, 1>>
  /\ lastCall.ref = population[3]
  /\ calls = 2

\* C8: PointFunction and UniformFunction called on parents with identical
\* genes return a child with those genes, for every crossover point count
\* and every outcome of the draws.
C8_IdenticalParents ==
  (lastCall.kind \in CrossoverMethods
     /\ lastCall.heapBefore[1].Genes = lastCall.heapBefore[2].Genes) =>
    /\ ~lastCall.panic
    /\ heap[lastCall.ref].Genes = lastCall.heapBefore[1].Genes

GeneCount(p, h, v) == Cardinality({j \in 1..Len(p) : h[p[j]].Genes = <<v>>})

DividedWeights ==
  DivideWeightsFrom(population, lastCall.heapBefore, 1,
                    SumWeights(population, lastCall.heapBefore))

\* C10: when RouletteFunction finds a negative weight after dividing by the
\* total, the weights it draws from are all non-negative and their minimum
\* is exactly 0.  (Stated where the division gave finite weights, that is
\* where the total was not zero.)
C10_ShiftMakesMinimumZero ==
  (lastCall.kind = "roulette" /\ ~lastCall.panic
     /\ \A i \in 1..Len(population) : IsFinite(DividedWeights[population[i]].weight)
     /\ CountNegativeWeights(population, DividedWeights) > 0) =>
    /\ \A i \in 1..Len(population) : ~FLt(heap[population[i]].weight, Zero)
    /\ \E i \in 1..Len(population) : heap[population[i]].weight = Zero

\* The cut positions among `points` that are <= j.
CutsUpTo(points, j) == Cardinality({k \in 1..Len(points) : points[k] <= j})

\* C11: PointFunction on parents of gene length L with a crossover point count
\* c, 0 <= c <= L, completes; it picks c distinct cut positions in 1..L and
\* returns a new chromosome of length L whose gene j (0-based) is parent A's
\* when the number of cut positions <= j is even and parent B's when it is
\* odd; with c = 0 the child's genes are parent A's; the parents' genes are
\* as they were.
C11_PointSegmentsAlternate ==
  (lastCall.kind = "point"
     /\ lastCall.count <= Len(lastCall.heapBefore[1].Genes)) =>
    LET a == lastCall.heapBefore[1].Genes
        b == lastCall.heapBefore[2].Genes
        L == Len(a)
        points == lastCall.points
    IN  /\ ~lastCall.panic
        /\ Len(points) = lastCall.count
        /\ \A k \in 1..Len(points) : points[k] \in 1..L
        /\ \A k, l \in 1..Len(points) : k < l => points[k] < points[l]
        /\ lastCall.ref \notin DOMAIN lastCall.heapBefore
        /\ lastCall.ref \in DOMAIN heap
        /\ Len(heap[lastCall.ref].Genes) = L
        /\ \A j \in 1..L :
             heap[lastCall.ref].Genes[j] =
               (IF CutsUpTo(points, j - 1) % 2 = 0 THEN a[j] ELSE b[j])
        /\ lastCall.count = 0 => heap[lastCall.ref].Genes = a
        /\ heap[1] = lastCall.heapBefore[1]
        /\ heap[2] = lastCall.heapBefore[2]

\* Parents [0,0,0] and [1,1,1] cut at 1 and 3: the child is [0,1,1], the last
\* segment being empty.
C11_Witness ==
  /\ lastCall.kind = "point"
  /\ lastCall.heapBefore[1].Genes = <<0, 0, 0>>
  /\ lastCall.heapBefore[2].Genes = <<1, 1, 1>>
  /\ lastCall.count = 2
  /\ lastCall.points = <<1, 3>>
  /\ heap[lastCall.ref].Genes = <<0, 1, 1>>

====
